---- MODULE Spec2Model ----
(***************************************************************************)
(* Model of the lively-rs wallpaper client (src/src/main.rs): the Wgpu     *)
(* state struct, the blocking_dispatch event loop of main, every Wayland   *)
(* handler implemented on Wgpu, and Wgpu::draw.                            *)
(*                                                                         *)
(* The compositor is the environment: while a blocking_dispatch call is    *)
(* running it may deliver any handler invocation in any order.  The wgpu   *)
(* surface is the environment too: get_current_texture may return Ok or    *)
(* any SurfaceError.                                                       *)
(***************************************************************************)
EXTENDS Integers, Sequences, FiniteSets, TLC

\* ---------------------------------------------------------------- bounds
\* Sizes the compositor may report in a configure event are 0..MaxSize.
MaxSize == 2
\* Total number of handler invocations explored in one run.
MaxEvents == 3
\* Longest slice of PointerEvents handed to one pointer_frame call.
MaxPointerEvents == 1

\* ------------------------------------------------------ program constants
\* Fallback / initial surface dimension (main.rs:132-133, 240-241).
DefaultDim == 256

Sizes == 0..MaxSize
Dims == (1..MaxSize) \cup {DefaultDim}

\* Result of surface.get_current_texture(): Ok or a wgpu::SurfaceError.
AcquireOutcomes == {"Ok", "Timeout", "Outdated", "Lost", "OutOfMemory"}
\* Outcome of the fallible initialisation steps of main.
SetupOutcomes == {"Ok", "NoCompositor", "NoLayerShell", "NoAdapter", "NoDevice"}
Capabilities == {"Keyboard", "Pointer", "Touch"}
\* Keysyms: Escape and one representative of every other key.
Keysyms == {"KEY_Escape", "KEY_a"}
\* A surface argument is either this layer's wl_surface or another one.
Surfaces == {"own", "other"}
PointerEventKinds == {"Enter", "Leave", "Motion", "Press", "Release", "Axis"}
PointerEvents == [surface : Surfaces, kind : PointerEventKinds]

None == <<>>
Some(x) == <<x>>

VARIABLES
  \* fields of struct Wgpu
  exit, first_configure, width, height, shift,
  keyboard, keyboard_focus, pointer,
  \* position of main: "init", "loop", "dispatching", "done", "panicked"
  pc,
  \* why the process panicked ("" while it has not)
  panicCause,
  \* the wgpu surface: None until configured, then Some(<<w, h>>)
  surfCfg,
  \* the calls made on the surface/queue by the most recent draw, in order
  lastDraw,
  \* number of draw calls so far
  draws,
  \* number of configure handler invocations so far
  configures,
  \* the handler invocation handled most recently
  lastEvent,
  \* number of handler invocations so far
  nEvents,
  \* TRUE once the closed handler has run
  closedHandled,
  \* None, or Some(new_size) of the most recent configure event
  lastNewSize,
  \* the single-slot latest pointer position of the pointer sampler:
  \* None until a sample is published, then Some(<<x, y>>)
  latestSample,
  \* wl_keyboard / wl_pointer objects created and not yet released
  liveKeyboards, livePointers,
  \* the most recent keyboard enter/leave that targeted the layer's
  \* surface: "none", "enter" or "leave"
  lastOwnFocus,
  \* number of pointer Press events on the layer's surface so far
  ownPresses

progVars == <<exit, first_configure, width, height, shift,
              keyboard, keyboard_focus, pointer>>
drawVars == <<surfCfg, lastDraw, draws>>
histVars == <<liveKeyboards, livePointers, lastOwnFocus, ownPresses>>
vars == <<exit, first_configure, width, height, shift,
          keyboard, keyboard_focus, pointer, pc, panicCause,
          surfCfg, lastDraw, draws, configures, lastEvent, nEvents,
          closedHandled, lastNewSize, latestSample, histVars>>

\* ------------------------------------------------------------- helpers
Event(kind, size, arg) == [kind |-> kind, size |-> size, arg |-> arg]
NoSize == <<0, 0>>

Step(op, w, h, res) == [op |-> op, w |-> w, h |-> h, res |-> res]

\* Variant: the frame is presented before the commands are submitted.
DrawLog_presentBeforeSubmit(w, h, outcome) ==
  IF outcome = "Ok"
  THEN << [op |-> "configure", w |-> w, h |-> h, res |-> ""],
          [op |-> "acquire", w |-> 0, h |-> 0, res |-> outcome],
          [op |-> "present", w |-> 0, h |-> 0, res |-> ""],
          [op |-> "submit", w |-> 0, h |-> 0, res |-> ""] >>
  ELSE << [op |-> "configure", w |-> w, h |-> h, res |-> ""],
          [op |-> "acquire", w |-> 0, h |-> 0, res |-> outcome] >>

\* Variant: an acquired frame is dropped without submit and present.
DrawLog_dropsFrame(w, h, outcome) ==
  << [op |-> "configure", w |-> w, h |-> h, res |-> ""],
     [op |-> "acquire", w |-> 0, h |-> 0, res |-> outcome] >>

\* Wgpu::draw: surface.configure(width, height); get_current_texture()
\* .expect(..); on success queue.submit and surface_texture.present.
\* No wl_surface.frame / damage / commit request is issued.
DrawLog(w, h, outcome) ==
  IF outcome = "Ok"
  THEN << Step("configure", w, h, ""),
          Step("acquire", 0, 0, outcome),
          Step("submit", 0, 0, ""),
          Step("present", 0, 0, "") >>
  ELSE << Step("configure", w, h, ""),
          Step("acquire", 0, 0, outcome) >>

\* The configuration the surface is left with by the calls of a draw.
SurfaceAfter(log, before) ==
  LET cs == {i \in DOMAIN log : log[i].op = "configure"} IN
  IF cs = {} THEN before
  ELSE LET last == CHOOSE i \in cs : \A j \in cs : j <= i
       IN Some(<<log[last].w, log[last].h>>)

\* The effect of one call of Wgpu::draw with the dimensions it reads.
draw(w, h, outcome) ==
  /\ lastDraw' = DrawLog(w, h, outcome)
  /\ surfCfg' = SurfaceAfter(lastDraw', surfCfg)
  /\ draws' = draws + 1
  /\ pc' = IF outcome = "Ok" THEN pc ELSE "panicked"
  /\ panicCause' = IF outcome = "Ok" THEN panicCause
                   ELSE "failed to acquire next swapchain texture"

\* Bookkeeping shared by every handler invocation.
Handled(ev) ==
  /\ pc = "dispatching"
  /\ nEvents < MaxEvents
  /\ nEvents' = nEvents + 1
  /\ lastEvent' = ev

\* -------------------------------------------------------------- main
Init ==
  /\ exit = FALSE
  /\ first_configure = TRUE
  /\ width = DefaultDim
  /\ height = DefaultDim
  /\ shift = None
  /\ keyboard = None
  /\ keyboard_focus = FALSE
  /\ pointer = None
  /\ pc = "init"
  /\ panicCause = ""
  /\ surfCfg = None
  /\ lastDraw = <<>>
  /\ draws = 0
  /\ configures = 0
  /\ lastEvent = Event("none", NoSize, "")
  /\ nEvents = 0
  /\ closedHandled = FALSE
  /\ lastNewSize = None
  /\ latestSample = None
  /\ liveKeyboards = 0
  /\ livePointers = 0
  /\ lastOwnFocus = "none"
  /\ ownPresses = 0

\* Variant: a failed initialisation step is reported but main goes on.
Setup_continues ==
  /\ pc = "init"
  /\ \E outcome \in SetupOutcomes :
       /\ pc' = "loop"
       /\ panicCause' = IF outcome = "Ok" THEN "" ELSE outcome
  /\ UNCHANGED <<progVars, drawVars, configures, lastEvent, nEvents,
                 closedHandled, lastNewSize, latestSample, histVars>>

\* main, lines 34-143: every expect/unwrap before the loop.
Setup ==
  /\ pc = "init"
  /\ \E outcome \in SetupOutcomes :
       /\ pc' = IF outcome = "Ok" THEN "loop" ELSE "panicked"
       /\ panicCause' = IF outcome = "Ok" THEN "" ELSE outcome
  /\ UNCHANGED <<progVars, drawVars, configures, lastEvent, nEvents,
                 closedHandled, lastNewSize, latestSample, histVars>>

\* event_queue.blocking_dispatch(&mut simple_layer) starts delivering.
DispatchBegin ==
  /\ pc = "loop"
  /\ pc' = "dispatching"
  /\ UNCHANGED <<progVars, drawVars, panicCause, configures, lastEvent,
                 nEvents, closedHandled, lastNewSize, latestSample, histVars>>

\* blocking_dispatch returned Err and .unwrap() panics.
DispatchError ==
  /\ pc = "loop"
  /\ pc' = "panicked"
  /\ panicCause' = "blocking_dispatch"
  /\ UNCHANGED <<progVars, drawVars, configures, lastEvent, nEvents,
                 closedHandled, lastNewSize, latestSample, histVars>>

\* blocking_dispatch returned Ok; `if simple_layer.exit { break }`.
DispatchReturn ==
  /\ pc = "dispatching"
  /\ pc' = IF exit THEN "done" ELSE "loop"
  /\ UNCHANGED <<progVars, drawVars, panicCause, configures, lastEvent,
                 nEvents, closedHandled, lastNewSize, latestSample, histVars>>

\* ------------------------------------------------- CompositorHandler
\* Variant: the frame callback resets the stored size before drawing.
frame_handler_resetsDims(outcome) ==
  /\ Handled(Event("frame", NoSize, ""))
  /\ width' = DefaultDim
  /\ height' = DefaultDim
  /\ draw(width', height', outcome)
  /\ UNCHANGED <<exit, first_configure, shift, keyboard, keyboard_focus,
                 pointer, configures, closedHandled, lastNewSize,
                 latestSample, histVars>>

\* CompositorHandler::frame: self.draw(qh), unconditionally.
frame_handler(outcome) ==
  /\ Handled(Event("frame", NoSize, ""))
  /\ draw(width, height, outcome)
  /\ UNCHANGED <<progVars, configures, closedHandled, lastNewSize, latestSample, histVars>>

frame == \E outcome \in AcquireOutcomes : frame_handler(outcome)

\* CompositorHandler::scale_factor_changed and the OutputHandler /
\* SeatHandler::new_seat / remove_seat callbacks: empty bodies.
NoOpHandlers == {"scale_factor_changed", "new_output", "update_output",
                 "output_destroyed", "new_seat", "remove_seat"}

noop_handler(kind) ==
  /\ Handled(Event(kind, NoSize, ""))
  /\ UNCHANGED <<progVars, drawVars, pc, panicCause, configures,
                 closedHandled, lastNewSize, latestSample, histVars>>

noop == \E kind \in NoOpHandlers : noop_handler(kind)

\* ------------------------------------------------- LayerShellHandler
\* Variant: closed also drops the seat handles.
closed_dropsSeat ==
  /\ Handled(Event("closed", NoSize, ""))
  /\ exit' = TRUE
  /\ closedHandled' = TRUE
  /\ keyboard' = None
  /\ pointer' = None
  /\ UNCHANGED <<first_configure, width, height, shift,
                 keyboard_focus, drawVars, pc, panicCause,
                 configures, lastNewSize, latestSample, histVars>>

\* LayerShellHandler::closed: self.exit = true.
closed ==
  /\ Handled(Event("closed", NoSize, ""))
  /\ exit' = TRUE
  /\ closedHandled' = TRUE
  /\ UNCHANGED <<first_configure, width, height, shift, keyboard,
                 keyboard_focus, pointer, drawVars, pc, panicCause,
                 configures, lastNewSize, latestSample, histVars>>

\* Variant: the reported size is stored as it is.
ConfigureSize_raw(new_size) == new_size

\* Variant: the fallback is taken only when both axes are 0.
ConfigureSize_bothZero(new_size) ==
  IF new_size[1] = 0 /\ new_size[2] = 0
  THEN <<DefaultDim, DefaultDim>>
  ELSE new_size

\* Variant: only the axis reported as 0 falls back to 256.
ConfigureSize_perAxis(new_size) ==
  << IF new_size[1] = 0 THEN DefaultDim ELSE new_size[1],
     IF new_size[2] = 0 THEN DefaultDim ELSE new_size[2] >>

\* The size stored by configure: (256, 256) if either axis is 0.
ConfigureSize(new_size) ==
  IF new_size[1] = 0 \/ new_size[2] = 0
  THEN <<DefaultDim, DefaultDim>>
  ELSE new_size

\* Variant: the first draw runs before the new size is stored.
configure_handler_drawFirst(new_size, outcome) ==
  /\ Handled(Event("configure", new_size, ""))
  /\ width' = ConfigureSize(new_size)[1]
  /\ height' = ConfigureSize(new_size)[2]
  /\ configures' = configures + 1
  /\ lastNewSize' = Some(new_size)
  /\ IF first_configure
     THEN /\ first_configure' = FALSE
          /\ draw(width, height, outcome)
     ELSE UNCHANGED <<first_configure, drawVars, pc, panicCause>>
  /\ UNCHANGED <<exit, shift, keyboard, keyboard_focus, pointer,
                 closedHandled, latestSample, histVars>>

\* Variant: only the first configure stores the size.
configure_handler_firstOnly(new_size, outcome) ==
  /\ Handled(Event("configure", new_size, ""))
  /\ configures' = configures + 1
  /\ lastNewSize' = Some(new_size)
  /\ IF first_configure
     THEN /\ width' = ConfigureSize(new_size)[1]
          /\ height' = ConfigureSize(new_size)[2]
          /\ first_configure' = FALSE
          /\ draw(width', height', outcome)
     ELSE UNCHANGED <<width, height, first_configure, drawVars, pc,
                      panicCause>>
  /\ UNCHANGED <<exit, shift, keyboard, keyboard_focus, pointer,
                 closedHandled, latestSample, histVars>>

\* Variant: every configure draws, not only the first.
configure_handler_alwaysDraw(new_size, outcome) ==
  /\ Handled(Event("configure", new_size, ""))
  /\ width' = ConfigureSize(new_size)[1]
  /\ height' = ConfigureSize(new_size)[2]
  /\ configures' = configures + 1
  /\ lastNewSize' = Some(new_size)
  /\ first_configure' = FALSE
  /\ draw(width', height', outcome)
  /\ UNCHANGED <<exit, shift, keyboard, keyboard_focus, pointer,
                 closedHandled, latestSample, histVars>>

\* Variant: first_configure is tested but never cleared.
configure_handler_keepsFlag(new_size, outcome) ==
  /\ Handled(Event("configure", new_size, ""))
  /\ width' = ConfigureSize(new_size)[1]
  /\ height' = ConfigureSize(new_size)[2]
  /\ configures' = configures + 1
  /\ lastNewSize' = Some(new_size)
  /\ IF first_configure
     THEN /\ first_configure' = first_configure
          /\ draw(width', height', outcome)
     ELSE UNCHANGED <<first_configure, drawVars, pc, panicCause>>
  /\ UNCHANGED <<exit, shift, keyboard, keyboard_focus, pointer,
                 closedHandled, latestSample, histVars>>

\* LayerShellHandler::configure: store the size, then on the first
\* configure clear first_configure and draw.
configure_handler(new_size, outcome) ==
  /\ Handled(Event("configure", new_size, ""))
  /\ width' = ConfigureSize(new_size)[1]
  /\ height' = ConfigureSize(new_size)[2]
  /\ configures' = configures + 1
  /\ lastNewSize' = Some(new_size)
  /\ IF first_configure
     THEN /\ first_configure' = FALSE
          /\ draw(width', height', outcome)
     ELSE UNCHANGED <<first_configure, drawVars, pc, panicCause>>
  /\ UNCHANGED <<exit, shift, keyboard, keyboard_focus, pointer,
                 closedHandled, latestSample, histVars>>

configure ==
  \E new_size \in Sizes \X Sizes, outcome \in AcquireOutcomes :
    configure_handler(new_size, outcome)

\* ------------------------------------------------------- SeatHandler
\* Variant: a handle is created without testing whether one is held.
new_capability_handler_noCheck(capability, created) ==
  /\ Handled(Event("new_capability", NoSize, capability))
  /\ LET mkKeyboard == capability = "Keyboard"
         mkPointer == capability = "Pointer"
     IN /\ keyboard' = IF mkKeyboard /\ created THEN Some("wl_keyboard")
                        ELSE keyboard
        /\ pointer' = IF mkPointer /\ created THEN Some("wl_pointer")
                       ELSE pointer
        /\ pc' = IF (mkKeyboard \/ mkPointer) /\ ~created
                  THEN "panicked" ELSE pc
        /\ panicCause' = IF mkKeyboard /\ ~created
                            THEN "Failed to create keyboard"
                          ELSE IF mkPointer /\ ~created
                            THEN "Failed to create pointer"
                          ELSE panicCause
        /\ liveKeyboards' = IF mkKeyboard /\ created
                             THEN liveKeyboards + 1 ELSE liveKeyboards
        /\ livePointers' = IF mkPointer /\ created
                            THEN livePointers + 1 ELSE livePointers
  /\ UNCHANGED <<exit, first_configure, width, height, shift,
                 keyboard_focus, drawVars, configures, closedHandled,
                 lastNewSize, latestSample, lastOwnFocus, ownPresses>>

\* SeatHandler::new_capability; `created` is whether get_keyboard /
\* get_pointer returned Ok (otherwise .expect panics).
new_capability_handler(capability, created) ==
  /\ Handled(Event("new_capability", NoSize, capability))
  /\ LET mkKeyboard == capability = "Keyboard" /\ keyboard = None
         mkPointer == capability = "Pointer" /\ pointer = None
     IN /\ keyboard' = IF mkKeyboard /\ created THEN Some("wl_keyboard")
                        ELSE keyboard
        /\ pointer' = IF mkPointer /\ created THEN Some("wl_pointer")
                       ELSE pointer
        /\ pc' = IF (mkKeyboard \/ mkPointer) /\ ~created
                  THEN "panicked" ELSE pc
        /\ panicCause' = IF mkKeyboard /\ ~created
                            THEN "Failed to create keyboard"
                          ELSE IF mkPointer /\ ~created
                            THEN "Failed to create pointer"
                          ELSE panicCause
        /\ liveKeyboards' = IF mkKeyboard /\ created
                             THEN liveKeyboards + 1 ELSE liveKeyboards
        /\ livePointers' = IF mkPointer /\ created
                            THEN livePointers + 1 ELSE livePointers
  /\ UNCHANGED <<exit, first_configure, width, height, shift,
                 keyboard_focus, drawVars, configures, closedHandled,
                 lastNewSize, latestSample, lastOwnFocus, ownPresses>>

new_capability ==
  \E capability \in Capabilities, created \in BOOLEAN :
    new_capability_handler(capability, created)

\* SeatHandler::remove_capability: take() and release a held handle.
remove_capability_handler(capability) ==
  /\ Handled(Event("remove_capability", NoSize, capability))
  /\ keyboard' = IF capability = "Keyboard" /\ keyboard # None
                  THEN None ELSE keyboard
  /\ pointer' = IF capability = "Pointer" /\ pointer # None
                 THEN None ELSE pointer
  /\ liveKeyboards' = IF capability = "Keyboard" /\ keyboard # None
                       THEN liveKeyboards - 1 ELSE liveKeyboards
  /\ livePointers' = IF capability = "Pointer" /\ pointer # None
                      THEN livePointers - 1 ELSE livePointers
  /\ UNCHANGED <<exit, first_configure, width, height, shift,
                 keyboard_focus, drawVars, pc, panicCause, configures,
                 closedHandled, lastNewSize, latestSample, lastOwnFocus,
                 ownPresses>>

remove_capability ==
  \E capability \in Capabilities : remove_capability_handler(capability)

\* --------------------------------------------------- KeyboardHandler
\* KeyboardHandler::enter: focus gained if the surface is the layer's.
enter_handler(surface) ==
  /\ Handled(Event("enter", NoSize, surface))
  /\ keyboard_focus' = IF surface = "own" THEN TRUE ELSE keyboard_focus
  /\ lastOwnFocus' = IF surface = "own" THEN "enter" ELSE lastOwnFocus
  /\ UNCHANGED <<exit, first_configure, width, height, shift, keyboard,
                 pointer, drawVars, pc, panicCause, configures,
                 closedHandled, lastNewSize, latestSample, liveKeyboards,
                 livePointers, ownPresses>>

enter == \E surface \in Surfaces : enter_handler(surface)

\* Variant: a leave of any surface clears the focus.
leave_handler_anySurface(surface) ==
  /\ Handled(Event("leave", NoSize, surface))
  /\ keyboard_focus' = FALSE
  /\ lastOwnFocus' = IF surface = "own" THEN "leave" ELSE lastOwnFocus
  /\ UNCHANGED <<exit, first_configure, width, height, shift, keyboard,
                 pointer, drawVars, pc, panicCause, configures,
                 closedHandled, lastNewSize, latestSample, liveKeyboards,
                 livePointers, ownPresses>>

\* KeyboardHandler::leave: focus lost if the surface is the layer's.
leave_handler(surface) ==
  /\ Handled(Event("leave", NoSize, surface))
  /\ keyboard_focus' = IF surface = "own" THEN FALSE ELSE keyboard_focus
  /\ lastOwnFocus' = IF surface = "own" THEN "leave" ELSE lastOwnFocus
  /\ UNCHANGED <<exit, first_configure, width, height, shift, keyboard,
                 pointer, drawVars, pc, panicCause, configures,
                 closedHandled, lastNewSize, latestSample, liveKeyboards,
                 livePointers, ownPresses>>

leave == \E surface \in Surfaces : leave_handler(surface)

\* Variant: any key press exits.
press_key_handler_anyKey(keysym) ==
  /\ Handled(Event("press_key", NoSize, keysym))
  /\ exit' = TRUE
  /\ UNCHANGED <<first_configure, width, height, shift, keyboard,
                 keyboard_focus, pointer, drawVars, pc, panicCause,
                 configures, closedHandled, lastNewSize, latestSample, histVars>>

\* Variant: Escape exits only while the surface has keyboard focus.
press_key_handler_focusOnly(keysym) ==
  /\ Handled(Event("press_key", NoSize, keysym))
  /\ exit' = IF keysym = "KEY_Escape" /\ keyboard_focus THEN TRUE ELSE exit
  /\ UNCHANGED <<first_configure, width, height, shift, keyboard,
                 keyboard_focus, pointer, drawVars, pc, panicCause,
                 configures, closedHandled, lastNewSize, latestSample, histVars>>

\* KeyboardHandler::press_key: "press 'esc' to exit".
press_key_handler(keysym) ==
  /\ Handled(Event("press_key", NoSize, keysym))
  /\ exit' = IF keysym = "KEY_Escape" THEN TRUE ELSE exit
  /\ UNCHANGED <<first_configure, width, height, shift, keyboard,
                 keyboard_focus, pointer, drawVars, pc, panicCause,
                 configures, closedHandled, lastNewSize, latestSample, histVars>>

press_key == \E keysym \in Keysyms : press_key_handler(keysym)

\* KeyboardHandler::release_key: prints only.
release_key_handler(keysym) ==
  /\ Handled(Event("release_key", NoSize, keysym))
  /\ UNCHANGED <<progVars, drawVars, pc, panicCause, configures,
                 closedHandled, lastNewSize, latestSample, histVars>>

release_key == \E keysym \in Keysyms : release_key_handler(keysym)

\* KeyboardHandler::update_modifiers: prints only.
update_modifiers ==
  /\ Handled(Event("update_modifiers", NoSize, ""))
  /\ UNCHANGED <<progVars, drawVars, pc, panicCause, configures,
                 closedHandled, lastNewSize, latestSample, histVars>>

\* ---------------------------------------------------- PointerHandler
\* Variant: Option::or in place of Option::xor.
OptXor_or(a, b) == IF a # None THEN a ELSE b

\* Option::xor: Some iff exactly one of the two is Some.
OptXor(a, b) ==
  IF a # None /\ b = None THEN a
  ELSE IF a = None /\ b # None THEN b
  ELSE None

\* Body of the `for event in events` loop for one event.
PointerEventStep(sh, event) ==
  IF event.surface # "own" THEN sh
  ELSE IF event.kind = "Press" THEN OptXor(sh, Some(0))
  ELSE sh

RECURSIVE PointerFold(_, _)
PointerFold(sh, events) ==
  IF events = <<>> THEN sh
  ELSE PointerFold(PointerEventStep(sh, Head(events)), Tail(events))

PointerEventSeqs ==
  UNION {[1..n -> PointerEvents] : n \in 0..MaxPointerEvents}

\* PointerHandler::pointer_frame.
pointer_frame_handler(events) ==
  /\ Handled(Event("pointer_frame", NoSize, ""))
  /\ shift' = PointerFold(shift, events)
  /\ ownPresses' = ownPresses + Cardinality(
       {i \in DOMAIN events :
          events[i].surface = "own" /\ events[i].kind = "Press"})
  /\ UNCHANGED <<exit, first_configure, width, height, keyboard,
                 keyboard_focus, pointer, drawVars, pc, panicCause,
                 configures, closedHandled, lastNewSize, latestSample,
                 liveKeyboards, livePointers, lastOwnFocus>>

pointer_frame == \E events \in PointerEventSeqs : pointer_frame_handler(events)

\* ------------------------------------------------------ specification
Next ==
  \/ Setup
  \/ DispatchBegin
  \/ DispatchError
  \/ DispatchReturn
  \/ frame
  \/ noop
  \/ closed
  \/ configure
  \/ new_capability
  \/ remove_capability
  \/ enter
  \/ leave
  \/ press_key
  \/ release_key
  \/ update_modifiers
  \/ pointer_frame

Spec == Init /\ [][Next]_vars

\* ----------------------------------------------------- pointer sampler
\* Positions the pointer sampler may publish.
Samples == {<<i, i>> : i \in Sizes}

\* The pointer sampler thread publishes a position: the single slot is
\* overwritten (last value wins), whatever the render thread is doing.
sampler_publish(p) ==
  /\ pc \in {"loop", "dispatching"}
  /\ latestSample' = Some(p)
  /\ UNCHANGED <<progVars, drawVars, pc, panicCause, configures, lastEvent,
                 nEvents, closedHandled, lastNewSize, histVars>>

publish == \E p \in Samples : sampler_publish(p)

\* The program running next to the pointer sampler thread.
NextSampler ==
  \/ Next
  \/ publish

SamplerSpec == Init /\ [][NextSampler]_vars

TypeOK ==
  /\ exit \in BOOLEAN /\ first_configure \in BOOLEAN
  /\ width \in Dims /\ height \in Dims
  /\ shift \in {None, Some(0)}
  /\ keyboard \in {None, Some("wl_keyboard")}
  /\ pointer \in {None, Some("wl_pointer")}
  /\ keyboard_focus \in BOOLEAN
  /\ pc \in {"init", "loop", "dispatching", "done", "panicked"}
  /\ draws \in 0..MaxEvents /\ configures \in 0..MaxEvents
  /\ nEvents \in 0..MaxEvents
  /\ closedHandled \in BOOLEAN

\* ------------------------------------------------------------- claims
\* The size a configure event is expected to leave in width/height.
FallbackOf(sz) == IF sz[1] = 0 \/ sz[2] = 0 THEN <<256, 256>> ELSE sz

\* Indices of the calls of kind op in a draw log.
Calls(log, op) == {i \in DOMAIN log : log[i].op = op}

\* The step just taken was a handler invocation of this kind.
Handling(kind) == nEvents' = nEvents + 1 /\ lastEvent'.kind = kind

\* C1: no render happens before the configure handler has run at least
\* once, whatever the order of the compositor's events.
C1_NoRenderBeforeConfigure == draws > 0 => configures > 0

\* C2: after a configure event of size (0,0) the stored dimensions are
\* (256,256); the draw of a first configure of size (0,0) configures the
\* surface at (256,256); no draw ever configures the surface at (0,0).
C2_DegenerateSize ==
  /\ surfCfg # Some(<<0, 0>>)
  /\ \A i \in Calls(lastDraw, "configure") :
       <<lastDraw[i].w, lastDraw[i].h>> # <<0, 0>>
  /\ (lastEvent.kind = "configure" /\ lastEvent.size = <<0, 0>>) =>
       /\ width = 256 /\ height = 256
       /\ configures = 1 =>
            /\ surfCfg = Some(<<256, 256>>)
            /\ lastDraw[1] = Step("configure", 256, 256, "")

C2_Witness ==
  /\ lastEvent.kind = "configure" /\ lastEvent.size = <<0, 0>>
  /\ configures = 1
  /\ surfCfg = Some(<<256, 256>>)
  /\ Calls(lastDraw, "acquire") # {}

\* C3: width > 0 and height > 0 always, and every acquire of a draw is
\* preceded in that draw by a surface configure with both dimensions > 0.
C3_PositiveDims ==
  /\ width > 0 /\ height > 0
  /\ \A i \in Calls(lastDraw, "acquire") :
       \E j \in Calls(lastDraw, "configure") :
         j < i /\ lastDraw[j].w > 0 /\ lastDraw[j].h > 0

C3_Witness ==
  /\ lastEvent.kind = "configure"
  /\ lastEvent.size[1] = 0 /\ lastEvent.size[2] > 0
  /\ configures = 1
  /\ Calls(lastDraw, "acquire") # {}
  /\ width > 0 /\ height > 0

\* C4: the handler invocation that receives the first configure stores
\* the dimensions and then runs exactly one draw, whose surface configure
\* uses the dimensions just stored.
C4_FirstConfigureDraws ==
  [][(Handling("configure") /\ configures = 0) =>
       /\ <<width', height'>> = FallbackOf(lastEvent'.size)
       /\ draws' = draws + 1
       /\ Calls(lastDraw', "configure") = {1}
       /\ <<lastDraw'[1].w, lastDraw'[1].h>> = FallbackOf(lastEvent'.size)
       /\ surfCfg' = Some(FallbackOf(lastEvent'.size))]_vars

C4_Witness ==
  /\ lastEvent.kind = "configure" /\ lastEvent.size = <<1, 2>>
  /\ configures = 1 /\ draws = 1 /\ nEvents = 1
  /\ lastDraw[1] = Step("configure", 1, 2, "")
  /\ Calls(lastDraw, "present") # {}

\* C5: every draw that follows a configure event configures the surface
\* with the size of the most recent configure event (after the zero-size
\* fallback), never with an older size.
C5_ResizeBeforeRender ==
  [][(draws' # draws /\ lastNewSize' # None) =>
       /\ surfCfg' = Some(FallbackOf(lastNewSize'[1]))
       /\ \A i \in Calls(lastDraw', "configure") :
            <<lastDraw'[i].w, lastDraw'[i].h>> = FallbackOf(lastNewSize'[1])]_vars

C5_Witness ==
  /\ lastEvent.kind = "frame"
  /\ configures >= 2 /\ draws >= 2
  /\ lastNewSize = Some(<<2, 1>>)
  /\ surfCfg = Some(<<2, 1>>)
  /\ Calls(lastDraw, "present") # {}

\* C6: every completed render has requested the next frame callback.
C6_NextFrameRequested ==
  Calls(lastDraw, "present") # {} => Calls(lastDraw, "request_frame") # {}

\* C7: a draw happens only in the handler of a frame callback or of the
\* first configure event, and one handler invocation draws at most once.
C7_RenderCauses ==
  [][draws' # draws =>
       /\ draws' = draws + 1
       /\ \/ Handling("frame")
          \/ Handling("configure") /\ configures = 0]_vars

C7_Witness ==
  /\ draws = 2 /\ configures = 2 /\ nEvents = 3
  /\ lastEvent.kind = "configure"
  /\ surfCfg # Some(<<width, height>>)

\* C8: once the closed notification has been handled no draw and no
\* surface configure or acquire happens.
C8_ClosedIsTerminal ==
  [][closedHandled => (draws' = draws /\ surfCfg' = surfCfg
                       /\ lastDraw' = lastDraw)]_vars

\* C9 as stated: exit is true, and the loop has ended normally, only if
\* the closed notification was handled.
C9_OnlyClosedExits == (exit \/ pc = "done") => closedHandled

\* C9 amended: exit becomes true only in the closed handler or in the
\* press_key handler for keysym Escape, and the loop ends normally only
\* with exit true.
C9_ClosedOrEscapeExits ==
  [][/\ (~exit /\ exit') =>
          \/ Handling("closed")
          \/ Handling("press_key") /\ lastEvent'.arg = "KEY_Escape"
     /\ (pc # "done" /\ pc' = "done") => exit]_vars

C9_Witness ==
  /\ pc = "done" /\ exit /\ ~closedHandled
  /\ lastEvent.kind = "press_key" /\ lastEvent.arg = "KEY_Escape"

\* C10: when the first acquire of a draw fails with surface-lost, the
\* surface is configured again and acquire is retried once, and the
\* process does not panic.
C10_LostIsRetried ==
  \A i \in Calls(lastDraw, "acquire") :
    (lastDraw[i].res = "Lost" /\ \A j \in Calls(lastDraw, "acquire") : i <= j) =>
      /\ pc # "panicked"
      /\ Len(lastDraw) >= i + 2
      /\ lastDraw[i + 1].op = "configure"
      /\ lastDraw[i + 2].op = "acquire"
      /\ Cardinality(Calls(lastDraw, "acquire")) = 2

\* C11: once the closed notification has been handled the process is
\* either still inside the dispatch call that delivered it or at its
\* clean exit: it never panics and never waits for another event.
C11_CleanShutdown == closedHandled => pc \in {"dispatching", "done"}

\* The uniform x' = 2x/width - 1, y' = 1 - 2y/height of a pointer
\* position, as the numerators of x' over width and of y' over height.
NormalizeNum(p, w, h) == <<2 * p[1] - w, h - 2 * p[2]>>

\* The uniforms written by the calls of a draw (numerators as above).
Uniforms(log) == {<<log[i].w, log[i].h>> : i \in Calls(log, "write_uniform")}

\* A draw has just run to its present.
Rendered == draws' # draws /\ Calls(lastDraw', "present") # {}

\* C12: the uniform used by a frame is derived from the most recent
\* pointer sample published before the render began.
C12_LatestSampleWins ==
  [][(Rendered /\ latestSample # None) =>
       Uniforms(lastDraw') =
         {NormalizeNum(latestSample[1], width', height')}]_vars

\* C13: when the compositor global, the layer shell, the adapter or the
\* device cannot be obtained the process has panicked before the event
\* loop: no event was dispatched and no draw, surface configure or
\* acquire happened.
C13_FatalInit ==
  panicCause \in {"NoCompositor", "NoLayerShell", "NoAdapter", "NoDevice"} =>
    /\ pc = "panicked"
    /\ nEvents = 0 /\ lastEvent.kind = "none"
    /\ draws = 0 /\ lastDraw = <<>> /\ surfCfg = None

C13_Witness ==
  /\ panicCause = "NoAdapter"
  /\ pc = "panicked"
  /\ nEvents = 0 /\ draws = 0

\* C14: width and height change only in a step of the configure handler;
\* every other handler, draw called from frame, and the steps of main
\* leave them unchanged.
C14_DimsOnlyByConfigure ==
  [][(width' # width \/ height' # height) => Handling("configure")]_vars

C14_Witness ==
  /\ width = 1 /\ height = 2
  /\ lastEvent.kind = "frame"
  /\ nEvents = 3 /\ configures = 1 /\ draws = 3

\* C15: a render at size (width, height) maps pointer position (0,0) to
\* the uniform (-1, 1) and pointer position (width, height) to (1, -1)
\* exactly (numerators -width, height and width, -height).
C15_NormalizationEndpoints ==
  [][Rendered =>
       /\ latestSample = Some(<<0, 0>>) =>
            Uniforms(lastDraw') = {<<0 - width', height'>>}
       /\ latestSample = Some(<<width', height'>>) =>
            Uniforms(lastDraw') = {<<width', 0 - height'>>}]_vars

\* C16: in every draw the calls are, in this order, surface configure,
\* frame acquire, command submit, present: a submit follows a successful
\* acquire, a present follows a submit, and an acquired frame is submitted
\* and presented exactly once.
C16_DrawOrder ==
  lastDraw # <<>> =>
    /\ Len(lastDraw) >= 2
    /\ lastDraw[1].op = "configure"
    /\ lastDraw[2].op = "acquire"
    /\ \A s \in Calls(lastDraw, "submit") :
         \E a \in Calls(lastDraw, "acquire") :
           a < s /\ lastDraw[a].res = "Ok"
    /\ \A p \in Calls(lastDraw, "present") :
         \E s \in Calls(lastDraw, "submit") : s < p
    /\ \A a \in Calls(lastDraw, "acquire") :
         Cardinality(Calls(lastDraw, "present")) =
           (IF lastDraw[a].res = "Ok" THEN 1 ELSE 0)

C16_Witness ==
  /\ lastEvent.kind = "frame" /\ draws = 1 /\ configures = 0
  /\ [i \in DOMAIN lastDraw |-> lastDraw[i].op] =
       <<"configure", "acquire", "submit", "present">>

\* A draw log in which every successfully acquired frame has been
\* submitted and then presented.
Completed(log) ==
  \A a \in Calls(log, "acquire") :
    log[a].res = "Ok" =>
      \E s \in Calls(log, "submit") :
        /\ a < s
        /\ \E p \in Calls(log, "present") : s < p

\* C17: whenever a handler is invoked or the exit check of the loop runs,
\* the render before it is over: a frame that was acquired has been
\* submitted and presented; the closed handler itself touches no render.
C17_NoMidFrameCancellation ==
  [][/\ (nEvents' # nEvents \/ (pc = "dispatching" /\ pc' \in {"loop", "done"}))
          => Completed(lastDraw)
     /\ Handling("closed") => (lastDraw' = lastDraw /\ Completed(lastDraw'))]_vars

C17_Witness ==
  /\ lastEvent.kind = "closed" /\ pc = "done"
  /\ draws = 1 /\ configures = 1 /\ nEvents = 2
  /\ Calls(lastDraw, "present") # {}

\* C18: first_configure is true exactly until the first configure has
\* been handled and never becomes true again; only that first configure
\* draws from the configure handler, every later configure only stores
\* the dimensions.
C18_OnlyFirstConfigureDraws ==
  [][/\ first_configure = (configures = 0)
     /\ first_configure' = (configures' = 0)
     /\ ~first_configure => ~first_configure'
     /\ (first_configure /\ ~first_configure') => Handling("configure")
     /\ (Handling("configure") /\ configures >= 1) =>
          /\ UNCHANGED <<surfCfg, lastDraw, draws, pc>>
          /\ <<width', height'>> = FallbackOf(lastEvent'.size)]_vars

C18_Witness ==
  /\ lastEvent.kind = "configure" /\ lastEvent.size = <<2, 2>>
  /\ configures = 3 /\ draws = 1 /\ ~first_configure
  /\ width = 2 /\ height = 2
  /\ surfCfg = Some(<<1, 1>>)

\* C19: after a configure whose size has exactly one zero axis both
\* stored dimensions are 256 (the non-zero axis is discarded); after a
\* configure with both axes non-zero the reported size is stored as is.
C19_OneZeroAxis ==
  lastEvent.kind = "configure" =>
    LET w == lastEvent.size[1]
        h == lastEvent.size[2]
    IN /\ ((w = 0 /\ h > 0) \/ (w > 0 /\ h = 0)) =>
            (width = 256 /\ height = 256)
       /\ (w > 0 /\ h > 0) => (width = w /\ height = h)

C19_Witness ==
  /\ lastEvent.kind = "configure" /\ lastEvent.size = <<2, 0>>
  /\ configures = 2
  /\ width = 256 /\ height = 256

\* C20: a press of Escape sets exit whatever keyboard_focus is, and the
\* loop then breaks when the dispatch call returns; a press of any other
\* key and every key release leave exit unchanged.
C20_EscapeExits ==
  [][/\ (Handling("press_key") /\ lastEvent'.arg = "KEY_Escape") => exit'
     /\ (Handling("press_key") /\ lastEvent'.arg # "KEY_Escape") =>
          exit' = exit
     /\ Handling("release_key") => exit' = exit
     /\ (exit /\ pc = "dispatching" /\ pc' \notin {"dispatching", "panicked"})
          => pc' = "done"]_vars

C20_Witness ==
  /\ lastEvent.kind = "press_key" /\ lastEvent.arg = "KEY_Escape"
  /\ ~keyboard_focus /\ keyboard = None
  /\ nEvents = 1
  /\ exit /\ pc = "done"

\* C21: the closed handler sets exit and changes nothing else: it runs no
\* draw and leaves width, height, first_configure, keyboard, pointer,
\* keyboard_focus and shift as they were; once exit is true no step sets
\* it back to false.
C21_ClosedOnlySetsExit ==
  [][/\ Handling("closed") =>
          /\ exit'
          /\ UNCHANGED <<width, height, first_configure, keyboard, pointer,
                         keyboard_focus, shift>>
          /\ UNCHANGED <<surfCfg, lastDraw, draws, pc>>
     /\ exit => exit']_vars

C21_Witness ==
  /\ lastEvent.kind = "closed" /\ exit
  /\ keyboard # None /\ shift = Some(0)
  /\ nEvents = 3 /\ draws = 0

\* C22: at most one wl_keyboard and one wl_pointer object is live, and it
\* is the one held in keyboard / pointer; new_capability for a kind that
\* is held creates nothing; remove_capability releases exactly the held
\* handle, never panics, and leaves the handle None.
C22_SeatHandlesHeldOnce ==
  [][/\ liveKeyboards' = (IF keyboard' = None THEN 0 ELSE 1)
     /\ livePointers' = (IF pointer' = None THEN 0 ELSE 1)
     /\ (Handling("new_capability") /\ lastEvent'.arg = "Keyboard"
           /\ keyboard # None) =>
          UNCHANGED <<keyboard, liveKeyboards, pc>>
     /\ (Handling("new_capability") /\ lastEvent'.arg = "Pointer"
           /\ pointer # None) =>
          UNCHANGED <<pointer, livePointers, pc>>
     /\ (Handling("remove_capability") /\ lastEvent'.arg = "Keyboard") =>
          /\ keyboard' = None /\ pc' = pc
          /\ liveKeyboards' =
               liveKeyboards - (IF keyboard = None THEN 0 ELSE 1)
     /\ (Handling("remove_capability") /\ lastEvent'.arg = "Pointer") =>
          /\ pointer' = None /\ pc' = pc
          /\ livePointers' =
               livePointers - (IF pointer = None THEN 0 ELSE 1)]_vars

C22_Witness ==
  /\ lastEvent.kind = "remove_capability" /\ lastEvent.arg = "Keyboard"
  /\ keyboard = None /\ liveKeyboards = 0
  /\ pointer # None /\ livePointers = 1
  /\ nEvents = 3

\* C23: keyboard_focus is true exactly when the most recent keyboard
\* enter/leave that targeted the layer's surface was an enter (false
\* while there was none); enter and leave of another surface leave it
\* unchanged.
C23_KeyboardFocus == keyboard_focus = (lastOwnFocus = "enter")

C23_Witness ==
  /\ lastEvent.kind = "leave" /\ lastEvent.arg = "other"
  /\ lastOwnFocus = "enter" /\ keyboard_focus

\* C24: shift is None or Some(0), and it is Some(0) exactly when the
\* number of pointer Press events on the layer's surface so far is odd:
\* each such press toggles it, and pointer events of other surfaces or of
\* other kinds, and every other handler, leave it unchanged.
C24_ShiftToggles ==
  /\ shift \in {None, Some(0)}
  /\ (shift = Some(0)) = (ownPresses % 2 = 1)

C24_Witness ==
  /\ lastEvent.kind = "pointer_frame"
  /\ ownPresses = 2 /\ shift = None
  /\ nEvents = 3

====
